---- MODULE Spec2Model ----
(***************************************************************************)
(* A model of package problem (problem.go): the RFC 7807 "Problem Details" *)
(* builder.  A Problem is a heap object holding one Go map from string to  *)
(* interface{}; options are closures that assign one key of that map; New  *)
(* and Append apply a list of options; JSON / MarshalJSON / JSONString     *)
(* encode the map with encoding/json; WriteTo drives an http.ResponseWriter.*)
(***************************************************************************)
EXTENDS Integers, Sequences, FiniteSets, TLC

VARIABLES
    heap,      \* address -> Problem, the Problem objects that are allocated
    p,         \* the *Problem the caller holds
    panicked,  \* a run-time panic has unwound the caller
    op,        \* the operation that ran last
    args,      \* the options that operation was given
    pre,       \* the heap when that operation was called on a Problem
    prep,      \* the Problem it was called on (New has none)
    w0,        \* the http.ResponseWriter handed to WriteTo, as it was handed
    w,         \* that ResponseWriter when WriteTo returned
    ret        \* what the operation returned

vars == <<heap, p, panicked, op, args, pre, prep, w0, w, ret>>

----------------------------------------------------------------------------
(* Bounds of the model *)

\* the longest option list a single New or Append call is given
MaxOpts == 2

----------------------------------------------------------------------------
(* Go values held in an interface{}: a dynamic type and a value of it *)

IntV(n) == [t |-> "int", i |-> n, s |-> ""]
Int64V(n) == [t |-> "int64", i |-> n, s |-> ""]
StringV(x) == [t |-> "string", i |-> 0, s |-> x]
ChanV == [t |-> "chan", i |-> 0, s |-> ""]

\* the Go integer kinds among the dynamic types of the model
IntegerTypes == {"int", "int64"}

----------------------------------------------------------------------------
(* type Problem struct { data map[string]interface{} } *)

\* the zero value: data is the nil map
ZeroProblem == [isnil |-> TRUE, data |-> [k \in {} |-> ChanV]]

\* make(map[string]interface{})
MakeMap == [k \in {} |-> ChanV]

\* problem.data[key] = value; assignment to an entry of a nil map panics
MapAssign(problem, key, value) ==
    IF problem.isnil
    THEN [problem |-> problem, panic |-> TRUE]
    ELSE [problem |-> [problem EXCEPT !.data =
                          [k \in DOMAIN problem.data \cup {key} |->
                              IF k = key THEN value ELSE problem.data[k]]],
          panic |-> FALSE]

----------------------------------------------------------------------------
(* The option constructors: each returns a closure over its arguments *)

Type(uri) == [fn |-> "Type", key |-> "", val |-> StringV(uri)]
Title(title) == [fn |-> "Title", key |-> "", val |-> StringV(title)]
Status(status) == [fn |-> "Status", key |-> "", val |-> IntV(status)]
Detail(detail) == [fn |-> "Detail", key |-> "", val |-> StringV(detail)]
Instance(uri) == [fn |-> "Instance", key |-> "", val |-> StringV(uri)]
Custom(key, value) == [fn |-> "Custom", key |-> key, val |-> value]

\* a plausible slip: Instance's closure writes the key of Type
applyWrongKey(opt, problem) ==
    CASE opt.fn = "Type" -> MapAssign(problem, "type", opt.val)
      [] opt.fn = "Title" -> MapAssign(problem, "title", opt.val)
      [] opt.fn = "Status" -> MapAssign(problem, "status", opt.val)
      [] opt.fn = "Detail" -> MapAssign(problem, "detail", opt.val)
      [] opt.fn = "Instance" -> MapAssign(problem, "type", opt.val)
      [] opt.fn = "Custom" -> MapAssign(problem, opt.key, opt.val)

\* a plausible slip: an option keeps a value that is already there
applyKeepFirst(opt, problem) ==
    LET key == CASE opt.fn = "Type" -> "type"
                 [] opt.fn = "Title" -> "title"
                 [] opt.fn = "Status" -> "status"
                 [] opt.fn = "Detail" -> "detail"
                 [] opt.fn = "Instance" -> "instance"
                 [] opt.fn = "Custom" -> opt.key
    IN  IF ~problem.isnil /\ key \in DOMAIN problem.data
        THEN [problem |-> problem, panic |-> FALSE]
        ELSE MapAssign(problem, key, opt.val)

\* optionFunc.apply: run the closure the constructor built
apply(opt, problem) ==
    CASE opt.fn = "Type" -> MapAssign(problem, "type", opt.val)
      [] opt.fn = "Title" -> MapAssign(problem, "title", opt.val)
      [] opt.fn = "Status" -> MapAssign(problem, "status", opt.val)
      [] opt.fn = "Detail" -> MapAssign(problem, "detail", opt.val)
      [] opt.fn = "Instance" -> MapAssign(problem, "instance", opt.val)
      [] opt.fn = "Custom" -> MapAssign(problem, opt.key, opt.val)

\* for _, opt := range opts { opt.apply(problem) }; a panic ends the loop
RECURSIVE applyAll(_, _)
applyAll(opts, problem) ==
    IF opts = << >>
    THEN [problem |-> problem, panic |-> FALSE]
    ELSE LET r == apply(Head(opts), problem)
         IN  IF r.panic THEN r ELSE applyAll(Tail(opts), r.problem)

----------------------------------------------------------------------------
(* The heap of Problem objects *)

\* the address a fresh allocation gets: the least one not in use
Alloc(h) == CHOOSE a \in 1..(Cardinality(DOMAIN h) + 1) :
                a \notin DOMAIN h /\ \A b \in 1..(a - 1) : b \in DOMAIN h

\* h with the object at address a set to problem (allocating a if need be)
Store(h, a, problem) == [b \in DOMAIN h \cup {a} |-> IF b = a THEN problem ELSE h[b]]

\* what is left of h once only the pointer a is still referenced
Collect(h, a) == [b \in DOMAIN h \cap {a} |-> h[b]]

\* a plausible slip: New forgets make(), data stays the nil map
NewNoMake(opts, h) ==
    LET a == Alloc(h)
        r == applyAll(opts, ZeroProblem)
    IN  [heap |-> Store(h, a, r.problem), ptr |-> a, panic |-> r.panic]

\* func New(opts ...Option) *Problem
New(opts, h) ==
    LET a == Alloc(h)
        problem == [ZeroProblem EXCEPT !.isnil = FALSE, !.data = MakeMap]
        r == applyAll(opts, problem)
    IN  [heap |-> Store(h, a, r.problem), ptr |-> a, panic |-> r.panic]

\* a plausible slip: Append works on a copy and returns the copy
AppendCopy(ptr, opts, h) ==
    LET a == Alloc(h)
        r == applyAll(opts, h[ptr])
    IN  [heap |-> Store(h, a, r.problem), ptr |-> a, panic |-> r.panic]

\* func (p *Problem) Append(opts ...Option) *Problem
ProblemAppend(ptr, opts, h) ==
    LET r == applyAll(opts, h[ptr])
    IN  [heap |-> Store(h, ptr, r.problem), ptr |-> ptr, panic |-> r.panic]

----------------------------------------------------------------------------
(* encoding/json, as far as map[string]interface{} of these values needs it *)

\* the bytes of the model's map keys, in byte order
Alphabet == "_abcdefghijklmnopqrstuvwxyz"

CharAt(x, i) == SubSeq(x, i, i)

CharRank(c) == CHOOSE i \in 1..Len(Alphabet) : CharAt(Alphabet, i) = c

\* x < y as byte strings (the order encoding/json sorts map keys in)
RECURSIVE StrLess(_, _)
StrLess(x, y) ==
    IF y = "" THEN FALSE
    ELSE IF x = "" THEN TRUE
    ELSE IF CharAt(x, 1) = CharAt(y, 1)
         THEN StrLess(SubSeq(x, 2, Len(x)), SubSeq(y, 2, Len(y)))
         ELSE CharRank(CharAt(x, 1)) < CharRank(CharAt(y, 1))

\* the keys of a set, sorted
RECURSIVE SortedKeys(_)
SortedKeys(ks) ==
    IF ks = {} THEN << >>
    ELSE LET least == CHOOSE k \in ks : \A o \in ks \ {k} : StrLess(k, o)
         IN  <<least>> \o SortedKeys(ks \ {least})

Digits == <<"0", "1", "2", "3", "4", "5", "6", "7", "8", "9">>

\* strconv.AppendInt(.., 10)
RECURSIVE IntToStr(_)
IntToStr(n) ==
    IF n < 0 THEN "-" \o IntToStr(0 - n)
    ELSE IF n < 10 THEN Digits[n + 1]
    ELSE IntToStr(n \div 10) \o Digits[(n % 10) + 1]

\* one byte of a string, as the encoder writes it (escapeHTML is on)
EscapeChar(c) ==
    CASE c = "\"" -> "\\\""
      [] c = "\\" -> "\\\\"
      [] c = "<" -> "\\u003c"
      [] c = ">" -> "\\u003e"
      [] c = "&" -> "\\u0026"
      [] OTHER -> c

RECURSIVE EscapeStr(_)
EscapeStr(x) ==
    IF x = "" THEN "" ELSE EscapeChar(CharAt(x, 1)) \o EscapeStr(SubSeq(x, 2, Len(x)))

\* a JSON string literal
Quote(x) == "\"" \o EscapeStr(x) \o "\""

\* the encoder of one interface{} value; a channel has no encoding
EncodeValue(v) ==
    CASE v.t \in IntegerTypes -> [ok |-> TRUE, s |-> IntToStr(v.i)]
      [] v.t = "string" -> [ok |-> TRUE, s |-> Quote(v.s)]
      [] OTHER -> [ok |-> FALSE, s |-> ""]

\* the members of an object, comma separated, keys in sorted order
RECURSIVE EncodeMembers(_, _)
EncodeMembers(keys, m) ==
    IF keys = << >> THEN ""
    ELSE Quote(Head(keys)) \o ":" \o EncodeValue(m[Head(keys)]).s
            \o (IF Len(keys) > 1 THEN "," ELSE "")
            \o EncodeMembers(Tail(keys), m)

\* json.Marshal(&p.data): (nil, err) when a value cannot be encoded
Marshal(problem) ==
    IF problem.isnil
    THEN [bytes |-> "null", bnil |-> FALSE, err |-> "nil"]
    ELSE IF \E k \in DOMAIN problem.data : ~EncodeValue(problem.data[k]).ok
    THEN [bytes |-> "", bnil |-> TRUE, err |-> "json: unsupported type"]
    ELSE [bytes |-> "{" \o EncodeMembers(SortedKeys(DOMAIN problem.data), problem.data) \o "}",
          bnil |-> FALSE, err |-> "nil"]

\* a plausible slip: the encoder's error is dropped here too
MarshalJSONDropErr(problem) == [Marshal(problem) EXCEPT !.err = "nil"]

\* func (p Problem) MarshalJSON() ([]byte, error)
MarshalJSON(problem) == Marshal(problem)

\* func (p Problem) JSON() []byte: b, _ := p.MarshalJSON(); return b
JSON(problem) == [bytes |-> MarshalJSON(problem).bytes, bnil |-> MarshalJSON(problem).bnil]

\* func (p Problem) JSONString() string: string(p.JSON())
JSONString(problem) == JSON(problem).bytes

----------------------------------------------------------------------------
(* http.ResponseWriter: the three methods WriteTo calls on it *)

Call(m, code, body, n, err) == [m |-> m, code |-> code, body |-> body, n |-> n, err |-> err]

\* w.Header().Set(key, value): the key's values become the single value
HeaderSet(sink, key, value) ==
    [sink EXCEPT !.header = [k \in DOMAIN sink.header \cup {key} |->
                                IF k = key THEN <<value>> ELSE sink.header[k]],
                 !.calls = @ \o <<Call("Header.Set", 0, "", 0, "nil")>>]

\* w.Header().Add(key, value): the value joins the key's values
HeaderAdd(sink, key, value) ==
    [sink EXCEPT !.header = [k \in DOMAIN sink.header \cup {key} |->
                                IF k # key THEN sink.header[k]
                                ELSE IF k \in DOMAIN sink.header
                                     THEN sink.header[k] \o <<value>>
                                     ELSE <<value>>],
                 !.calls = @ \o <<Call("Header.Set", 0, "", 0, "nil")>>]

\* w.WriteHeader(code)
SinkWriteHeader(sink, code) ==
    [sink EXCEPT !.calls = @ \o <<Call("WriteHeader", code, "", 0, "nil")>>]

\* w.Write(body): what it returns is the transport's business
SinkWrite(sink, body) ==
    LET r == CASE sink.transport = "ok" -> [n |-> Len(body), err |-> "nil"]
               [] sink.transport = "broken" -> [n |-> 0, err |-> "broken pipe"]
               [] sink.transport = "short" -> [n |-> Len(body) \div 2, err |-> "short write"]
    IN  [w |-> [sink EXCEPT !.calls = @ \o <<Call("Write", 0, body, r.n, r.err)>>],
         n |-> r.n, err |-> r.err]

----------------------------------------------------------------------------
(* func (p Problem) WriteTo(w http.ResponseWriter) (int, error) *)

\* a plausible slip: Add where Set was meant
setContentTypeAdd(sink) == HeaderAdd(sink, "Content-Type", "application/problem+json")

\* w.Header().Set("Content-Type", "application/problem+json")
setContentType(sink) == HeaderSet(sink, "Content-Type", "application/problem+json")

\* a plausible slip: the ok of the type assertion is not looked at, so a
\* status that is no int yields the zero int
setStatusNoOk(problem, sink) ==
    IF ~problem.isnil /\ "status" \in DOMAIN problem.data
    THEN SinkWriteHeader(sink, IF problem.data["status"].t = "int"
                               THEN problem.data["status"].i ELSE 0)
    ELSE sink

\* if statuscode, ok := p.data["status"]; ok {
\*     if statusint, ok := statuscode.(int); ok { w.WriteHeader(statusint) } }
setStatus(problem, sink) ==
    IF ~problem.isnil /\ "status" \in DOMAIN problem.data
    THEN IF problem.data["status"].t = "int"
         THEN SinkWriteHeader(sink, problem.data["status"].i)
         ELSE sink
    ELSE sink

\* a plausible slip: the write's error is dropped
writeBodyDropErr(problem, sink) ==
    [SinkWrite(sink, JSON(problem).bytes) EXCEPT !.err = "nil"]

\* return w.Write(p.JSON())
writeBody(problem, sink) == SinkWrite(sink, JSON(problem).bytes)

\* a plausible slip: the status line goes out before the header is set
WriteToStatusFirst(problem, sink) ==
    writeBody(problem, setContentType(setStatus(problem, sink)))

WriteTo(problem, sink) ==
    writeBody(problem, setStatus(problem, setContentType(sink)))

----------------------------------------------------------------------------
(* The callers: what they pass in *)

\* the options a caller builds
Options ==
    { Type("a"), Title("t"), Status(403), Detail("say \"x\" & go"), Instance("/i"),
      Custom("status", StringV("not-a-number")), Custom("status", Int64V(404)),
      Custom("balance", IntV(-30)), Custom("balance", ChanV) }

\* the option lists of one call
OptionLists == UNION { [1..n -> Options] : n \in 0..MaxOpts }

\* the ResponseWriters a caller hands over: headers it already holds, and
\* how its transport will take the body
Sinks ==
    { [header |-> h, calls |-> << >>, transport |-> t] :
        h \in { [k \in {} |-> << >>],
                [k \in {"Content-Type"} |-> <<"text/html">>],
                [k \in {"Content-Type"} |-> <<"text/plain", "text/html">>] },
        t \in {"ok", "broken", "short"} }

NoSink == [header |-> [k \in {} |-> << >>], calls |-> << >>, transport |-> "ok"]

NoRet == [ptr |-> 0, bytes |-> "", bnil |-> FALSE, str |-> "", n |-> 0, err |-> "nil"]

----------------------------------------------------------------------------
(* The state machine *)

\* the program starts with p := New(opts...)
Init ==
    \E opts \in OptionLists :
        LET r == New(opts, [a \in {} |-> ZeroProblem])
        IN  /\ heap = r.heap
            /\ p = r.ptr
            /\ panicked = r.panic
            /\ op = "New"
            /\ args = opts
            /\ pre = [a \in {} |-> ZeroProblem]
            /\ prep = 0
            /\ w0 = NoSink
            /\ w = NoSink
            /\ ret = [NoRet EXCEPT !.ptr = r.ptr]

\* the caller has looked at what the last call returned and moves on
Return ==
    /\ ~panicked
    /\ op # "idle"
    /\ op' = "idle"
    /\ args' = << >>
    /\ pre' = heap
    /\ prep' = p
    /\ w0' = NoSink
    /\ w' = NoSink
    /\ ret' = NoRet
    /\ UNCHANGED <<heap, p, panicked>>

\* p = New(opts...): the Problem p pointed to is no longer referenced
DoNew ==
    /\ ~panicked /\ op = "idle"
    /\ \E opts \in OptionLists :
        LET r == New(opts, heap)
        IN  /\ heap' = Collect(r.heap, r.ptr)
            /\ p' = r.ptr
            /\ panicked' = r.panic
            /\ op' = "New"
            /\ args' = opts
            /\ ret' = [NoRet EXCEPT !.ptr = r.ptr]
    /\ pre' = [a \in {} |-> ZeroProblem]
    /\ prep' = 0
    /\ UNCHANGED <<w0, w>>

\* p.Append(opts...)
DoAppend ==
    /\ ~panicked /\ op = "idle"
    /\ \E opts \in OptionLists :
        LET r == ProblemAppend(p, opts, heap)
        IN  /\ heap' = r.heap
            /\ panicked' = r.panic
            /\ op' = "Append"
            /\ args' = opts
            /\ ret' = [NoRet EXCEPT !.ptr = r.ptr]
    /\ pre' = heap
    /\ prep' = p
    /\ UNCHANGED <<p, w0, w>>

\* p.JSON()
DoJSON ==
    /\ ~panicked /\ op = "idle"
    /\ op' = "JSON"
    /\ ret' = [NoRet EXCEPT !.bytes = JSON(heap[p]).bytes, !.bnil = JSON(heap[p]).bnil]
    /\ pre' = heap
    /\ prep' = p
    /\ UNCHANGED <<heap, p, panicked, args, w0, w>>

\* p.MarshalJSON()
DoMarshalJSON ==
    /\ ~panicked /\ op = "idle"
    /\ op' = "MarshalJSON"
    /\ ret' = [NoRet EXCEPT !.bytes = MarshalJSON(heap[p]).bytes,
                            !.bnil = MarshalJSON(heap[p]).bnil,
                            !.err = MarshalJSON(heap[p]).err]
    /\ pre' = heap
    /\ prep' = p
    /\ UNCHANGED <<heap, p, panicked, args, w0, w>>

\* p.JSONString()
DoJSONString ==
    /\ ~panicked /\ op = "idle"
    /\ op' = "JSONString"
    /\ ret' = [NoRet EXCEPT !.str = JSONString(heap[p])]
    /\ pre' = heap
    /\ prep' = p
    /\ UNCHANGED <<heap, p, panicked, args, w0, w>>

\* p.WriteTo(sink)
DoWriteTo ==
    /\ ~panicked /\ op = "idle"
    /\ \E sink \in Sinks :
        LET r == WriteTo(heap[p], sink)
        IN  /\ w0' = sink
            /\ w' = r.w
            /\ ret' = [NoRet EXCEPT !.n = r.n, !.err = r.err]
    /\ op' = "WriteTo"
    /\ pre' = heap
    /\ prep' = p
    /\ UNCHANGED <<heap, p, panicked, args>>

Next ==
    \/ Return
    \/ DoNew
    \/ DoAppend
    \/ DoJSON
    \/ DoMarshalJSON
    \/ DoJSONString
    \/ DoWriteTo

Spec == Init /\ [][Next]_vars

----------------------------------------------------------------------------
(* Vocabulary of the properties *)

\* the key an option is documented to set
TargetKey(opt) ==
    CASE opt.fn = "Type" -> "type"
      [] opt.fn = "Title" -> "title"
      [] opt.fn = "Status" -> "status"
      [] opt.fn = "Detail" -> "detail"
      [] opt.fn = "Instance" -> "instance"
      [] opt.fn = "Custom" -> opt.key

TargetKeys(opts) == { TargetKey(opts[i]) : i \in 1..Len(opts) }

\* opts[i] is the last option of opts that targets its key
IsLast(opts, i) == \A j \in (i + 1)..Len(opts) : TargetKey(opts[j]) # TargetKey(opts[i])

\* every key opts targets holds in m the value of the last option targeting it
LastWriteWins(opts, m) ==
    \A i \in 1..Len(opts) :
        IsLast(opts, i) => /\ TargetKey(opts[i]) \in DOMAIN m
                           /\ m[TargetKey(opts[i])] = opts[i].val

\* no two options of opts target the same key
DistinctKeys(opts) ==
    \A i, j \in 1..Len(opts) : i # j => TargetKey(opts[i]) # TargetKey(opts[j])

\* the orderings of opts
Orderings(opts) ==
    { [i \in 1..Len(opts) |-> opts[f[i]]] :
        f \in { g \in [1..Len(opts) -> 1..Len(opts)] :
                  \A a, b \in 1..Len(opts) : a # b => g[a] # g[b] } }

\* the Problem built by New(first i of q), Append(next up to j), Append(rest)
BuiltInThree(q, i, j) ==
    LET r1 == New(SubSeq(q, 1, i), [a \in {} |-> ZeroProblem])
        r2 == ProblemAppend(r1.ptr, SubSeq(q, i + 1, j), r1.heap)
        r3 == ProblemAppend(r2.ptr, SubSeq(q, j + 1, Len(q)), r2.heap)
    IN  r3.heap[r3.ptr]

\* the positions of the calls of method m that the ResponseWriter saw
CallsOf(m) == { i \in 1..Len(w.calls) : w.calls[i].m = m }

MethodsCalled == [i \in 1..Len(w.calls) |-> w.calls[i].m]

HasStatus == ~heap[p].isnil /\ "status" \in DOMAIN heap[p].data

\* the map holds a value that is not JSON-compatible
HasUnencodable ==
    ~heap[p].isnil /\ \E k \in DOMAIN heap[p].data :
                          heap[p].data[k].t \notin {"int", "int64", "string"}

IsEmpty == ~heap[p].isnil /\ DOMAIN heap[p].data = {}

----------------------------------------------------------------------------
(* The properties *)

\* C1: after New(O1..On) the Problem's map holds exactly the keys the options
\* target, each with the value of the last option that targets it.
C1_NewLastWriteWins ==
    op = "New" =>
        /\ ~panicked
        /\ ret.ptr = p /\ p \in DOMAIN heap
        /\ ~heap[p].isnil
        /\ DOMAIN heap[p].data = TargetKeys(args)
        /\ LastWriteWins(args, heap[p].data)

C1_Witness ==
    /\ op = "New" /\ Len(args) = 2
    /\ args[1].fn = "Status" /\ args[2].fn = "Custom" /\ args[2].key = "status"
    /\ heap[p].data["status"] = args[2].val
    /\ args[1].val # args[2].val

\* C2: Append returns the Problem it was called on and changes it in place:
\* keys the options do not target keep their values, targeted keys hold the
\* value of the last option targeting them, and no other key appears.
C2_AppendInPlace ==
    op = "Append" =>
        /\ ~panicked
        /\ ret.ptr = prep /\ p = prep
        /\ DOMAIN heap = DOMAIN pre
        /\ ~heap[prep].isnil
        /\ DOMAIN heap[prep].data = DOMAIN pre[prep].data \cup TargetKeys(args)
        /\ \A k \in DOMAIN pre[prep].data \ TargetKeys(args) :
               heap[prep].data[k] = pre[prep].data[k]
        /\ LastWriteWins(args, heap[prep].data)

C2_Witness ==
    /\ op = "Append" /\ Len(args) >= 1
    /\ DOMAIN pre[prep].data \ TargetKeys(args) # {}
    /\ \E k \in TargetKeys(args) \cap DOMAIN pre[prep].data :
           heap[prep].data[k] # pre[prep].data[k]
    /\ TargetKeys(args) \ DOMAIN pre[prep].data # {}

\* C3: whenever WriteTo runs on a Problem whose status is of an integer type,
\* the ResponseWriter's status is set to that integer, once, before the body.
C3_IntegerStatusIsSet ==
    (op = "WriteTo" /\ HasStatus /\ heap[p].data["status"].t \in IntegerTypes) =>
        /\ Cardinality(CallsOf("WriteHeader")) = 1
        /\ \A i \in CallsOf("WriteHeader") :
               /\ w.calls[i].code = heap[p].data["status"].i
               /\ \A j \in CallsOf("Write") : i < j

\* C4: whenever WriteTo runs on a Problem with no status, or with a status
\* that is no integer, WriteHeader is never called, the body is still written
\* and WriteTo returns what that write returned.
C4_NoStatusNoWriteHeader ==
    (op = "WriteTo" /\ (~HasStatus \/ heap[p].data["status"].t \notin IntegerTypes)) =>
        /\ CallsOf("WriteHeader") = {}
        /\ Cardinality(CallsOf("Write")) = 1
        /\ \A i \in CallsOf("Write") :
               /\ w.calls[i].body = JSON(heap[p]).bytes
               /\ ret.err = w.calls[i].err

C4_Witness ==
    /\ op = "WriteTo" /\ HasStatus
    /\ heap[p].data["status"] = StringV("not-a-number")
    /\ CallsOf("Write") # {}

\* C5: after WriteTo the ResponseWriter's Content-Type header is exactly
\* application/problem+json, whatever it held before and whatever the fields.
C5_ContentType ==
    op = "WriteTo" =>
        /\ "Content-Type" \in DOMAIN w.header
        /\ w.header["Content-Type"] = <<"application/problem+json">>

C5_Witness ==
    /\ op = "WriteTo" /\ IsEmpty
    /\ "Content-Type" \in DOMAIN w0.header
    /\ Len(w0.header["Content-Type"]) = 2

\* C6: WriteTo writes the serialized bytes once and returns the very pair
\* (bytes written, error) that this write returned.
C6_WriteResultPropagated ==
    op = "WriteTo" =>
        /\ Cardinality(CallsOf("Write")) = 1
        /\ \A i \in CallsOf("Write") :
               /\ w.calls[i].body = JSON(heap[p]).bytes
               /\ ret.n = w.calls[i].n
               /\ ret.err = w.calls[i].err
               /\ (w0.transport = "ok" => ret.err = "nil" /\ ret.n = Len(w.calls[i].body))

C6_Witness ==
    /\ op = "WriteTo" /\ ret.err = "broken pipe"
    /\ heap[p].data # MakeMap

\* C7: with a value the encoder cannot represent, JSON and JSONString return
\* an empty result without a panic, and MarshalJSON returns a non-nil error.
C7_EncodingFailureDiscoverable ==
    HasUnencodable =>
        /\ ~panicked
        /\ op = "JSON" => ret.bytes = ""
        /\ op = "JSONString" => ret.str = ""
        /\ op = "MarshalJSON" => ret.err # "nil"

C7_Witness ==
    /\ op = "MarshalJSON" /\ HasUnencodable /\ ret.err # "nil"
    /\ Cardinality(DOMAIN heap[p].data) > 1

\* C8: the map of a Problem is never nil: no operation panics, and a Problem
\* with no fields serializes to {} from every serialization entry point.
C8_MapNeverNil ==
    /\ ~panicked
    /\ \A a \in DOMAIN heap : ~heap[a].isnil
    /\ p \in DOMAIN heap
    /\ (IsEmpty /\ op \in {"JSON", "MarshalJSON"}) => (ret.bytes = "{}" /\ ~ret.bnil)
    /\ (IsEmpty /\ op = "JSONString") => ret.str = "{}"
    /\ (IsEmpty /\ op = "WriteTo") => \A i \in CallsOf("Write") : w.calls[i].body = "{}"

C8_Witness == op = "JSON" /\ IsEmpty /\ ret.bytes = "{}"

\* C9: options on pairwise distinct keys give the same map in every order,
\* and however they are split between New and later Append calls.
C9_OrderIndependent ==
    (op = "New" /\ DistinctKeys(args)) =>
        \A q \in Orderings(args) :
            \A i \in 0..Len(q) : \A j \in i..Len(q) :
                BuiltInThree(q, i, j) = heap[p]

C9_Witness ==
    /\ op = "New" /\ Len(args) = MaxOpts /\ DistinctKeys(args)
    /\ \E i \in 1..Len(args) : args[i].fn = "Instance"

\* C10: one WriteTo call does Header.Set, then WriteHeader only when the
\* status is an integer, then Write, nothing after it, and leaves the
\* Problem as it was.
C10_CallOrder ==
    op = "WriteTo" =>
        /\ \/ MethodsCalled = <<"Header.Set", "WriteHeader", "Write">>
           \/ MethodsCalled = <<"Header.Set", "Write">>
        /\ CallsOf("WriteHeader") # {} =>
               (HasStatus /\ heap[p].data["status"].t \in IntegerTypes)
        /\ heap = pre /\ p = prep

C10_Witness ==
    /\ op = "WriteTo"
    /\ MethodsCalled = <<"Header.Set", "WriteHeader", "Write">>
    /\ w.calls[2].code = 403

====
